---- MODULE Spec2Model ----
(***************************************************************************)
(* The glutin SurfaceTexture backend of glium                              *)
(* (src/backend/glutin/android_surface_texture.rs).                        *)
(*                                                                         *)
(* The state is the shared cell Rc<RefCell<Takeable<Context<Pc>>>> held by *)
(* the GlutinBackend and by the SurfaceBacked wrapper, the RefCell's       *)
(* borrow flag, the position of the make_current call in progress, the     *)
(* live Frames and the external surface.  Every other variable is an       *)
(* observation of what the calls did (lastCall, mcLog, lastAttach, ...).   *)
(*                                                                         *)
(* A panic unwinds: the locals of the unwound frames are dropped (a RefMut *)
(* releases the borrow, an owned context is destroyed) and the objects     *)
(* that outlive the frame (the cell, the wrapper) stay as they are.        *)
(***************************************************************************)
EXTENDS Naturals, Sequences, FiniteSets

\* ---------------------------------------------------------------- bounds
\* Successful make_current cycles explored.
MaxCycles == 2
\* Read borrows (Ref from gl_context) a caller may hold at once.
MaxReaders == 2
\* Frames alive at once.
MaxFrames == 2
\* Texture ids a caller may pass to the constructor: 1..MaxTex.
MaxTex == 2
\* Sizes the external surface may take, as growth over the fixed size.
MaxGrow == 1

\* ------------------------------------------------------ program constants
\* get_framebuffer_dimensions: (800, 600)
FixedWidth == 800
FixedHeight == 600

TexIds == 1..MaxTex
SurfaceSizes == {<<FixedWidth + g, FixedHeight + g>> : g \in 0..MaxGrow}
Symbols == {"glKnown", "glUnknown"}

VARIABLES
    phase,        \* "unbuilt", "built" (a SurfaceBacked exists), "incompatible"
    supplied,     \* the glutin::Context<T> the caller hands to the constructor
    compatible,   \* whether the GL implementation has what glium requires
    glutin_context, \* content of the Takeable inside the RefCell the adaptor holds
    rc,           \* strong count of the Rc made by new_inner
    handles,      \* the cell GlutinBackend.glutin_context and SurfaceBacked.glutin point to
    other,        \* content of a cell of the wrapper's that is not the adaptor's
    writing,      \* RefCell: an exclusive borrow (RefMut) is outstanding
    readers,      \* RefCell: number of shared borrows (Ref) outstanding
    texture_id,   \* GlutinBackend.texture_id
    pc,           \* position of the make_current call in progress
    gl_window,    \* the context owned by make_current's frame (gl_window / gl_window_new)
    surface,      \* actual dimensions of the external surface
    frames,       \* live Frames: <<dimensions, surface at draw(), swaps triggered>>
    lastCall,     \* observation: the last operation and how it ended
    afterReturn,  \* observation: the call before lastCall was a make_current that returned
    mcLog,        \* observation: what the latest started make_current has done
    lastAttach,   \* observation: the cell as attach_to_gl_context found it
    cycles,       \* observation: make_current calls that returned normally
    everFailed,   \* observation: some platform transition returned an error
    everUnwound,  \* observation: a panic raised within a platform transition unwound it
    ctorTex       \* observation: the texture id given at construction

vars == <<phase, supplied, compatible, glutin_context, rc, handles, other, writing, readers, texture_id,
          pc, gl_window, surface, frames, lastCall, afterReturn, mcLog, lastAttach,
          cycles, everFailed, everUnwound, ctorTex>>

\* --------------------------------------------------------------- contexts
\* A Takeable<Context>: some = FALSE is the taken (empty) slot; ty is the
\* type-state marker (NotCurrent / PossiblyCurrent), cur the currency flag
\* the platform reports for the context.
Empty == [some |-> FALSE, ty |-> "Pc", cur |-> FALSE]
Ctx(ty, cur) == [some |-> TRUE, ty |-> ty, cur |-> cur]

Contexts == {Empty} \cup {Ctx(t, c) : t \in {"Nc", "Pc"}, c \in BOOLEAN}

NoLog == [transition |-> "none", attaches |-> 0, returned |-> FALSE]
NoAttach == [seen |-> FALSE, occupied |-> FALSE, current |-> FALSE, tex |-> 0,
             transition |-> "none"]
Call(op, ret, nested) == [op |-> op, ret |-> ret, nested |-> nested]

\* The last call was a make_current that returned normally.
JustReturned == lastCall.op = "make_current" /\ lastCall.ret = "returned"

NoHandles == [adaptor |-> "none", wrapper |-> "none"]

\* The cell as the wrapper's handle shows it.
wrapperCell == IF handles.wrapper = handles.adaptor THEN glutin_context ELSE other

\* Number of platform contexts alive: the cell's and the frame's.
liveContexts ==
    (IF glutin_context.some THEN 1 ELSE 0) + (IF gl_window.some THEN 1 ELSE 0)

\* Points at which a call can be issued: from the caller (idle), from within
\* the platform transition (taken) or from within the attach (attaching).
CallPoints == {"idle", "taken", "attaching"}
nested == pc # "idle"

\* ------------------------------------------------------------- primitives
\* Mutant: a shared borrow that does not look at the exclusive-borrow flag.
MutBorrowIgnoresWriter(w, r) == TRUE

\* Mutant: a read that asks for the cell exclusively.
MutBorrowExclusive(w, r) == ~w /\ r = 0

\* RefCell::borrow succeeds unless an exclusive borrow is outstanding.
borrow_ok(w, r) == ~w

\* Mutant: an exclusive borrow that does not look at the outstanding Refs.
MutBorrowMutIgnoresReaders(w, r) == ~w

\* RefCell::borrow_mut succeeds only when nothing is borrowed.
borrow_mut_ok(w, r) == ~w /\ r = 0

\* Mutant: the context is copied out and the slot keeps it.
MutTakeLeavesCopy(s) == s

\* Takeable::take: leaves the slot empty.
Takeable_take(s) == Empty

\* Mutant: the new context is not stored.
MutInsertLost(s, new) == s

\* Takeable::insert: the slot holds the new value.
Takeable_insert(s, new) == new

\* Mutant: clone makes a second cell holding a copy.
MutCloneDeep(cell) == "copy"

\* Rc::clone: another handle to the same cell.
Rc_clone(cell) == cell

\* Mutant: on failure one handle to the cell survives.
MutHandleSurvives(ok) == IF ok THEN 2 ELSE 1

\* Handles to the cell once new_inner is over: the adaptor's and the
\* wrapper's, or none when the error dropped the backend and the local.
handles_after(ok) == IF ok THEN 2 ELSE 0

\* Mutant: the context is made current when it is wrapped.
MutVerifiesCurrency(c) == [c EXCEPT !.ty = "Pc", !.cur = TRUE]

\* Context::treat_as_current: overrides the type-state, verifies nothing.
treat_as_current(c) == [c EXCEPT !.ty = "Pc"]

\* Mutant: the type-state is overridden and the platform is not asked.
MutTransitionKeepsFlag(c, ok) == [c EXCEPT !.ty = "Pc"]

\* Context::make_current: on success the context is current; on failure the
\* context comes back unchanged next to the error.
platform_make_current(c, ok) == IF ok THEN [c EXCEPT !.ty = "Pc", !.cur = TRUE] ELSE c

\* Mutant: the error of the transition is ignored.
MutUnwrapIgnoresErr(ok) == TRUE

\* Result::unwrap returns normally only on Ok.
unwrap_returns(ok) == ok

\* Context::is_current, through the Takeable's Deref.
ctx_is_current(c) == c.cur

\* Context::get_proc_address: the address, or null when unresolved.
resolve(symbol) == IF symbol = "glKnown" THEN "address" ELSE "null"

\* GlutinBackend::get_framebuffer_dimensions
get_framebuffer_dimensions == <<FixedWidth, FixedHeight>>

\* ------------------------------------------------------------ bookkeeping
cellVars == <<glutin_context, writing, readers, pc, gl_window>>
obsVars == <<mcLog, lastAttach, cycles, everFailed, everUnwound>>
ctorVars == <<phase, supplied, compatible, texture_id, ctorTex, rc, handles, other>>

\* The call `op` ends with `ret` and touches nothing.
Returns(op, ret) ==
    /\ lastCall' = Call(op, ret, nested)
    /\ afterReturn' = JustReturned
    /\ UNCHANGED <<cellVars, obsVars, ctorVars, surface, frames>>

\* The call `op` panics with `ret`.  Issued by the caller, the panic leaves
\* the cell as it is.  Issued from within make_current's external calls, it
\* is either caught there (caught) or unwinds make_current's frame: the
\* RefMut and the context the frame owns are dropped.
Panics(op, ret, caught) ==
    /\ lastCall' = Call(op, ret, nested)
    /\ afterReturn' = JustReturned
    /\ UNCHANGED <<ctorVars, surface, frames, glutin_context, readers, lastAttach, cycles,
                   everFailed>>
    /\ IF nested /\ ~caught
         THEN /\ pc' = "idle"
              /\ writing' = FALSE
              /\ gl_window' = Empty
              /\ everUnwound' = (everUnwound \/ pc = "taken")
              /\ mcLog' = IF pc = "taken" THEN [mcLog EXCEPT !.transition = "unwound"]
                                          ELSE mcLog
         ELSE UNCHANGED <<pc, writing, gl_window, everUnwound, mcLog>>

\* ------------------------------------------------------------------- Init
Init ==
    /\ phase = "unbuilt"
    /\ supplied \in {Ctx("Nc", c) : c \in BOOLEAN}
    /\ compatible \in BOOLEAN
    /\ glutin_context = Empty
    /\ rc = 0
    /\ handles = NoHandles
    /\ other = Empty
    /\ writing = FALSE
    /\ readers = 0
    /\ texture_id = 0
    /\ pc = "idle"
    /\ gl_window = Empty
    /\ surface \in SurfaceSizes
    /\ frames = <<>>
    /\ lastCall = Call("none", "none", FALSE)
    /\ afterReturn = FALSE
    /\ mcLog = NoLog
    /\ lastAttach = NoAttach
    /\ cycles = 0
    /\ everFailed = FALSE
    /\ everUnwound = FALSE
    /\ ctorTex = 0

\* ----------------------------------------------------------- construction
\* context::Context::new(backend, checked, debug): the compatibility check
\* runs only when checked, and fails on an implementation that lacks what
\* glium requires.
Context_new_ok(checked, compat) == ~checked \/ compat

\* SurfaceBacked::new_inner, reached through the constructor `ctor`.
new_inner(ctor, checked, tex) ==
    LET ok == Context_new_ok(checked, compatible)
        cell == treat_as_current(supplied)
        backend == Rc_clone("cell")
    IN  /\ phase = "unbuilt"
        /\ ctorTex' = tex
        /\ lastCall' = Call(ctor, IF ok THEN "Ok" ELSE "Err", FALSE)
        /\ afterReturn' = JustReturned
        /\ supplied' = Empty
        /\ rc' = handles_after(ok)
        /\ phase' = IF ok THEN "built" ELSE "incompatible"
        /\ handles' = IF ok THEN [adaptor |-> backend, wrapper |-> "cell"] ELSE NoHandles
        /\ texture_id' = IF ok THEN tex ELSE 0
        \* the cell and its context live as long as a handle does
        /\ glutin_context' = IF handles_after(ok) > 0 THEN cell ELSE Empty
        /\ other' = IF ok /\ backend # "cell" THEN cell ELSE Empty
        /\ UNCHANGED <<compatible, writing, readers, pc, gl_window, surface, frames, obsVars>>

\* Mutant: with_debug skips the compatibility check.
MutWithDebugUnchecked(tex) == new_inner("with_debug", FALSE, tex)

\* SurfaceBacked::with_debug
with_debug(tex) == new_inner("with_debug", TRUE, tex)

\* SurfaceBacked::new: with_debug with the default debug behaviour.
new(tex) == new_inner("new", TRUE, tex)

\* SurfaceBacked::unchecked_with_debug
unchecked_with_debug(tex) == new_inner("unchecked_with_debug", FALSE, tex)

\* SurfaceBacked::unchecked: unchecked_with_debug with the default debug behaviour.
unchecked(tex) == new_inner("unchecked", FALSE, tex)

Constructors == {"new", "with_debug", "unchecked", "unchecked_with_debug"}
CheckedConstructors == {"new", "with_debug"}

\* ------------------------------------------------------- backend: queries
\* Mutant: a swap that goes through the cell, as a windowed backend's does.
MutSwapBorrows ==
    /\ phase = "built"
    /\ pc \in CallPoints
    /\ IF borrow_ok(writing, readers) /\ glutin_context.some
         THEN Returns("swap_buffers", "Ok")
         ELSE Panics("swap_buffers", "already_borrowed", TRUE)

\* GlutinBackend::swap_buffers
swap_buffers ==
    /\ phase = "built"
    /\ pc \in CallPoints
    /\ Returns("swap_buffers", "Ok")

\* GlutinBackend::get_framebuffer_dimensions, called on the backend.
query_dimensions ==
    /\ phase = "built"
    /\ pc \in CallPoints
    /\ get_framebuffer_dimensions \in Nat \X Nat
    /\ Returns("get_framebuffer_dimensions", "fixed")

\* GlutinBackend::is_current
is_current ==
    /\ phase = "built"
    /\ pc \in CallPoints
    /\ \E caught \in BOOLEAN :
         IF ~borrow_ok(writing, readers)
           THEN Panics("is_current", "already_borrowed", caught)
           ELSE IF ~glutin_context.some
                  THEN Panics("is_current", "found_empty", caught)
                  ELSE /\ caught
                       /\ Returns("is_current",
                                  IF ctx_is_current(glutin_context) THEN "true" ELSE "false")

\* GlutinBackend::get_proc_address
get_proc_address(symbol) ==
    /\ phase = "built"
    /\ pc \in CallPoints
    /\ \E caught \in BOOLEAN :
         IF ~borrow_ok(writing, readers)
           THEN Panics("get_proc_address", "already_borrowed", caught)
           ELSE IF ~glutin_context.some
                  THEN Panics("get_proc_address", "found_empty", caught)
                  ELSE /\ caught
                       /\ Returns("get_proc_address", resolve(symbol))

\* -------------------------------------------------- backend: make_current
\* let mut gl_window_takeable = self.0.borrow_mut();
mc_borrow_mut ==
    /\ phase = "built"
    /\ pc \in CallPoints
    /\ cycles < MaxCycles
    /\ \E caught \in BOOLEAN :
         IF borrow_mut_ok(writing, readers)
           THEN /\ caught
                /\ writing' = TRUE
                /\ pc' = "borrowed"
                /\ mcLog' = NoLog
                /\ lastCall' = Call("make_current", "running", nested)
                /\ afterReturn' = JustReturned
                /\ UNCHANGED <<ctorVars, surface, frames, glutin_context, readers,
                               gl_window, lastAttach, cycles, everFailed, everUnwound>>
           ELSE Panics("make_current", "already_borrowed", caught)

\* let gl_window = Takeable::take(&mut gl_window_takeable);
mc_take ==
    /\ pc = "borrowed"
    /\ afterReturn' = JustReturned
    /\ UNCHANGED <<ctorVars, surface, frames, readers, lastAttach, cycles, everFailed,
                   everUnwound, mcLog>>
    /\ IF glutin_context.some
         THEN /\ gl_window' = glutin_context
              /\ glutin_context' = Takeable_take(glutin_context)
              /\ pc' = "taken"
              /\ lastCall' = Call("make_current", "running", FALSE)
              /\ UNCHANGED writing
         ELSE \* "value already taken": the frame unwinds
              /\ lastCall' = Call("make_current", "found_empty", FALSE)
              /\ pc' = "idle"
              /\ writing' = FALSE
              /\ UNCHANGED <<gl_window, glutin_context>>

\* let gl_window_new = gl_window.make_current().unwrap();
mc_transition(ok) ==
    /\ pc = "taken"
    /\ afterReturn' = JustReturned
    /\ UNCHANGED <<ctorVars, surface, frames, readers, lastAttach, cycles, glutin_context,
                   everUnwound>>
    /\ mcLog' = [mcLog EXCEPT !.transition = IF ok THEN "ok" ELSE "err"]
    /\ everFailed' = (everFailed \/ ~ok)
    /\ IF unwrap_returns(ok)
         THEN /\ gl_window' = platform_make_current(gl_window, ok)
              /\ pc' = "current"
              /\ lastCall' = Call("make_current", "running", FALSE)
              /\ UNCHANGED writing
         ELSE \* the panic drops the context and the RefMut
              /\ gl_window' = Empty
              /\ pc' = "idle"
              /\ writing' = FALSE
              /\ lastCall' = Call("make_current", "unwrap_failed", FALSE)

\* Mutant: the RefMut lives in a block that ends with the insert.
MutInsertReleasesBorrow ==
    /\ pc = "current"
    /\ glutin_context' = Takeable_insert(glutin_context, gl_window)
    /\ gl_window' = Empty
    /\ pc' = "inserted"
    /\ writing' = FALSE
    /\ lastCall' = Call("make_current", "running", FALSE)
    /\ afterReturn' = JustReturned
    /\ UNCHANGED <<ctorVars, surface, frames, readers, obsVars>>

\* Takeable::insert(&mut gl_window_takeable, gl_window_new);
mc_insert ==
    /\ pc = "current"
    /\ glutin_context' = Takeable_insert(glutin_context, gl_window)
    /\ gl_window' = Empty
    /\ pc' = "inserted"
    /\ lastCall' = Call("make_current", "running", FALSE)
    /\ afterReturn' = JustReturned
    /\ UNCHANGED <<ctorVars, surface, frames, readers, writing, obsVars>>

\* Mutant: the attach is left out.
MutAttachSkipped ==
    /\ pc = "inserted"
    /\ pc' = "attaching"
    /\ lastCall' = Call("make_current", "running", FALSE)
    /\ afterReturn' = JustReturned
    /\ UNCHANGED <<ctorVars, surface, frames, glutin_context, readers, writing,
                   gl_window, obsVars>>

\* self.surface_texture.attach_to_gl_context(self.texture_id); (invoked)
mc_attach ==
    /\ pc = "inserted"
    /\ pc' = "attaching"
    /\ lastAttach' = [seen |-> TRUE,
                      occupied |-> glutin_context.some,
                      current |-> glutin_context.some /\ glutin_context.cur,
                      tex |-> texture_id,
                      transition |-> mcLog.transition]
    /\ mcLog' = [mcLog EXCEPT !.attaches = @ + 1]
    /\ lastCall' = Call("make_current", "running", FALSE)
    /\ afterReturn' = JustReturned
    /\ UNCHANGED <<ctorVars, surface, frames, glutin_context, readers, writing,
                   gl_window, cycles, everFailed, everUnwound>>

\* Mutant: the RefMut is not released when make_current returns.
MutReturnKeepsBorrow ==
    /\ pc = "attaching"
    /\ pc' = "idle"
    /\ cycles' = cycles + 1
    /\ mcLog' = [mcLog EXCEPT !.returned = TRUE]
    /\ lastCall' = Call("make_current", "returned", FALSE)
    /\ afterReturn' = JustReturned
    /\ UNCHANGED <<ctorVars, surface, frames, glutin_context, readers, gl_window,
                   lastAttach, everFailed, everUnwound, writing>>

\* attach_to_gl_context returns; make_current returns and drops the RefMut.
mc_return ==
    /\ pc = "attaching"
    /\ pc' = "idle"
    /\ writing' = FALSE
    /\ cycles' = cycles + 1
    /\ mcLog' = [mcLog EXCEPT !.returned = TRUE]
    /\ lastCall' = Call("make_current", "returned", FALSE)
    /\ afterReturn' = JustReturned
    /\ UNCHANGED <<ctorVars, surface, frames, glutin_context, readers, gl_window,
                   lastAttach, everFailed, everUnwound>>

\* ---------------------------------------------------------------- wrapper
\* SurfaceBacked::gl_context: a Ref is handed to the caller.  On an empty slot
\* the Ref's Deref panics in the caller's hands; the Ref then lives on (kept)
\* or is dropped by the unwinding.
gl_context ==
    /\ phase = "built"
    /\ pc \in CallPoints
    /\ readers < MaxReaders
    /\ \E kept \in BOOLEAN :
         IF borrow_ok(writing, readers)
           THEN /\ kept \/ ~wrapperCell.some
                /\ readers' = IF kept THEN readers + 1 ELSE readers
                /\ lastCall' = Call("gl_context",
                                    IF wrapperCell.some THEN "Ref" ELSE "found_empty",
                                    nested)
                /\ afterReturn' = JustReturned
                /\ UNCHANGED <<ctorVars, surface, frames, glutin_context, writing, pc,
                               gl_window, obsVars>>
           ELSE Panics("gl_context", "already_borrowed", kept)

\* The caller drops a Ref obtained from gl_context.
drop_ref ==
    /\ phase = "built"
    /\ pc = "idle"
    /\ readers > 0
    /\ readers' = readers - 1
    /\ lastCall' = Call("drop_ref", "done", FALSE)
    /\ afterReturn' = JustReturned
    /\ UNCHANGED <<ctorVars, surface, frames, glutin_context, writing, pc, gl_window, obsVars>>

\* Mutant: draw() swaps the buffers itself when it makes the Frame.
MutDrawSwapsEarly ==
    /\ phase = "built"
    /\ pc \in CallPoints
    /\ Len(frames) < MaxFrames
    /\ frames' = Append(frames, <<get_framebuffer_dimensions, surface, 1>>)
    /\ lastCall' = Call("draw", "Frame", nested)
    /\ afterReturn' = JustReturned
    /\ UNCHANGED <<ctorVars, surface, cellVars, obsVars>>

\* SurfaceBacked::draw
draw ==
    /\ phase = "built"
    /\ pc \in CallPoints
    /\ Len(frames) < MaxFrames
    /\ frames' = Append(frames, <<get_framebuffer_dimensions, surface, 0>>)
    /\ lastCall' = Call("draw", "Frame", nested)
    /\ afterReturn' = JustReturned
    /\ UNCHANGED <<ctorVars, surface, cellVars, obsVars>>

\* Swaps the destruction of a Frame triggers on the backend.
swaps_on_drop == 1

\* How often a destroyed Frame has swapped the buffers, all told.
swapped(n) ==
    IF n = 0 THEN "not_swapped" ELSE IF n = 1 THEN "swapped_once" ELSE "swapped_again"

\* A Frame is destroyed: the buffers are swapped (swap_buffers, a no-op) in
\* the same step.
drop_frame ==
    /\ phase = "built"
    /\ pc = "idle"
    /\ frames # <<>>
    /\ frames' = Tail(frames)
    /\ lastCall' = Call("drop_frame", swapped(Head(frames)[3] + swaps_on_drop), FALSE)
    /\ afterReturn' = JustReturned
    /\ UNCHANGED <<ctorVars, surface, cellVars, obsVars>>

\* ------------------------------------------------------------ environment
\* The external surface changes size.
resize(d) ==
    /\ phase = "built"
    /\ pc = "idle"
    /\ d # surface
    /\ surface' = d
    /\ lastCall' = Call("resize", "done", FALSE)
    /\ afterReturn' = JustReturned
    /\ UNCHANGED <<ctorVars, frames, cellVars, obsVars>>

\* ------------------------------------------------------------------- Next
Next ==
    \/ \E tex \in TexIds : new(tex)
    \/ \E tex \in TexIds : with_debug(tex)
    \/ \E tex \in TexIds : unchecked(tex)
    \/ \E tex \in TexIds : unchecked_with_debug(tex)
    \/ swap_buffers
    \/ query_dimensions
    \/ is_current
    \/ \E s \in Symbols : get_proc_address(s)
    \/ mc_borrow_mut
    \/ mc_take
    \/ \E ok \in BOOLEAN : mc_transition(ok)
    \/ mc_insert
    \/ mc_attach
    \/ mc_return
    \/ gl_context
    \/ drop_ref
    \/ draw
    \/ drop_frame
    \/ \E d \in SurfaceSizes : resize(d)

Spec == Init /\ [][Next]_vars

\* ------------------------------------------------------------------ claims
\* No platform transition has failed or been unwound so far.
AllTransitionsSucceeded == ~everFailed /\ ~everUnwound

\* C1 (as claimed): once a platform transition has failed inside make_current
\* and the call is over, the cell is not empty and no holder finds it empty.
C1_NotLeftEmptyAfterFailure ==
    (everFailed /\ pc = "idle") =>
        (glutin_context.some /\ lastCall.ret # "found_empty")

\* C2: while every platform transition succeeds, the cell holds a context in
\* every state outside the span from the take step to the re-insert step of a
\* make_current call; in particular whenever no make_current is in progress.
C2_OccupiedOutsideTransition ==
    (phase = "built" /\ AllTransitionsSucceeded) =>
        /\ pc \notin {"taken", "current"} => glutin_context.some
        /\ ~glutin_context.some => writing

C2_Witness ==
    /\ cycles >= 1
    /\ pc = "idle"
    /\ AllTransitionsSucceeded
    /\ glutin_context.some
    /\ lastCall.op = "is_current"

\* C3: every attach found the platform transition of its call succeeded, the
\* cell occupied again and the context in it current.
C3_AttachAfterInsert ==
    lastAttach.seen =>
        /\ lastAttach.transition = "ok"
        /\ lastAttach.occupied
        /\ lastAttach.current

C3_Witness ==
    /\ pc = "attaching"
    /\ lastAttach.seen
    /\ mcLog.attaches = 1
    /\ ~gl_window.some

\* C4: no call issued while a make_current is in flight reads an empty slot.
C4_NestedNeverReadsEmpty ==
    lastCall.nested => lastCall.ret # "found_empty"

C4_Witness ==
    /\ pc = "taken"
    /\ ~glutin_context.some
    /\ lastCall = Call("is_current", "already_borrowed", TRUE)

\* C5: an is_current issued right after a make_current that returned normally
\* returns true.
C5_CurrentAfterMakeCurrent ==
    (afterReturn /\ lastCall.op = "is_current") => lastCall.ret = "true"

C5_Witness ==
    /\ afterReturn
    /\ lastCall = Call("is_current", "true", FALSE)
    /\ ctorTex # 0
    /\ cycles >= 1

\* C6: a make_current whose platform transition failed has ended at once by a
\* panic: it has not returned normally and has not invoked the attach.
C6_FailureIsLoud ==
    mcLog.transition = "err" =>
        /\ pc = "idle"
        /\ ~mcLog.returned
        /\ mcLog.attaches = 0
        /\ ~JustReturned

C6_Witness ==
    /\ mcLog.transition = "err"
    /\ lastCall = Call("make_current", "unwrap_failed", FALSE)

\* C7: a make_current invoked by the caller while a Ref from gl_context is
\* outstanding fails at borrow_mut: nothing is taken, the transition and the
\* attach are not invoked, the cell and the Ref are as before.
C7_ConflictFailsAtBorrow ==
    [][(pc = "idle" /\ readers > 0 /\ lastCall'.op = "make_current") =>
          /\ lastCall'.ret = "already_borrowed"
          /\ UNCHANGED <<glutin_context, writing, readers, pc, gl_window, mcLog,
                         lastAttach, cycles>>]_vars

C7_Witness ==
    /\ pc = "idle"
    /\ readers > 0
    /\ glutin_context.some
    /\ lastCall = Call("make_current", "already_borrowed", FALSE)

\* C8: while every platform transition succeeds, exactly one platform context
\* exists at every step of every cycle, between cycles it is in the cell, and
\* the texture id of the adaptor and of every attach is the constructor's.
C8_NoLeakAcrossCycles ==
    (phase = "built" /\ AllTransitionsSucceeded) =>
        /\ liveContexts = 1
        /\ pc = "idle" => (glutin_context.some /\ ~gl_window.some)
        /\ texture_id = ctorTex
        /\ lastAttach.seen => lastAttach.tex = ctorTex

C8_Witness ==
    /\ cycles = MaxCycles
    /\ pc = "idle"
    /\ AllTransitionsSucceeded
    /\ liveContexts = 1
    /\ lastAttach.tex = ctorTex

\* C9 (as claimed): every Frame carries the dimensions the surface had when
\* draw() made it.
C9_FrameHasSurfaceDimensions ==
    \A i \in 1..Len(frames) : frames[i][1] = frames[i][2]

\* C10: swap_buffers can be called and returns Ok whatever the state of the
\* cell, and a swap_buffers step changes nothing of the cell or the adaptor.
C10_SwapIsNoOp ==
    /\ [](phase = "built" /\ pc \in CallPoints => ENABLED swap_buffers)
    /\ [][lastCall'.op = "swap_buffers" =>
            /\ lastCall'.ret = "Ok"
            /\ UNCHANGED <<glutin_context, writing, readers, texture_id, pc, gl_window>>]_vars

C10_Witness ==
    /\ lastCall = Call("swap_buffers", "Ok", TRUE)
    /\ pc = "taken"
    /\ writing
    /\ ~glutin_context.some

C12_WitnessUnchecked ==
    /\ ~compatible
    /\ lastCall = Call("unchecked", "Ok", FALSE)
    /\ phase = "built"

\* C13: when construction reports incompatibility nothing of it survives: no
\* wrapper, no handle to the cell with the caller or anywhere else, the cell
\* and the platform context released, nothing borrowed.
C13_ConstructionAllOrNothing ==
    phase = "incompatible" =>
        /\ lastCall.op \in CheckedConstructors /\ lastCall.ret = "Err"
        /\ handles = NoHandles
        /\ rc = 0
        /\ ~glutin_context.some /\ ~supplied.some /\ liveContexts = 0
        /\ ~writing /\ readers = 0
        /\ texture_id = 0

C13_Witness ==
    /\ phase = "incompatible"
    /\ lastCall = Call("with_debug", "Err", FALSE)
    /\ rc = 0
    /\ ctorTex = MaxTex

\* C14: a make_current that returned has attached exactly once, with the
\* texture id given at construction; and an attach happens only in the attach
\* step of make_current, one at a time, never in another operation.
C14_OneAttachPerMakeCurrent ==
    /\ [](mcLog.returned =>
            (mcLog.attaches = 1 /\ lastAttach.seen /\ lastAttach.tex = ctorTex))
    /\ [][(mcLog'.attaches > mcLog.attaches \/ lastAttach' # lastAttach) =>
            /\ pc = "inserted"
            /\ lastCall'.op = "make_current"
            /\ mcLog'.attaches = mcLog.attaches + 1
            /\ lastAttach'.tex = ctorTex]_vars

C14_Witness ==
    /\ JustReturned
    /\ mcLog.returned
    /\ mcLog.attaches = 1
    /\ lastAttach.tex = ctorTex
    /\ cycles = MaxCycles

\* C15: the build step puts the caller's context in the cell typed as current
\* and otherwise as it came: no platform transition, no attach, the currency
\* flag whatever it was.
C15_TreatedAsCurrentUnverified ==
    [][(phase = "unbuilt" /\ phase' = "built") =>
          /\ glutin_context' = [supplied EXCEPT !.ty = "Pc"]
          /\ glutin_context'.some
          /\ mcLog' = NoLog
          /\ UNCHANGED <<everFailed, everUnwound, cycles, lastAttach, writing, readers>>]_vars

C15_Witness ==
    /\ phase = "built"
    /\ lastCall.op \in Constructors
    /\ glutin_context.some
    /\ glutin_context.ty = "Pc"
    /\ ~glutin_context.cur

ReadAnswers == {"true", "false", "address", "null"}

\* C16: is_current and get_proc_address issued by the caller on an occupied
\* cell succeed whatever Refs are out (a shared borrow), is_current with the
\* context's currency flag and get_proc_address with the address or null; and
\* a call of either that returns leaves the cell, its content and the borrow
\* state as they were.
C16_ReadsAreReadOnly ==
    /\ []((lastCall.op = "is_current" /\ ~lastCall.nested /\ glutin_context.some) =>
            lastCall.ret = (IF glutin_context.cur THEN "true" ELSE "false"))
    /\ []((lastCall.op = "get_proc_address" /\ ~lastCall.nested /\ glutin_context.some) =>
            lastCall.ret \in {"address", "null"})
    /\ [][(lastCall'.op \in {"is_current", "get_proc_address"}
            /\ lastCall'.ret \in ReadAnswers) =>
            UNCHANGED <<glutin_context, writing, readers, pc, gl_window, rc>>]_vars

C16_Witness ==
    /\ lastCall = Call("is_current", "false", FALSE)
    /\ readers = MaxReaders
    /\ ~writing

\* C17: the exclusive borrow is out from borrow_mut to the return, the attach
\* included: a read issued from within the attach fails on the borrow though
\* the cell is occupied again; after a normal return nothing is borrowed.
C17_BorrowHeldThroughAttach ==
    /\ pc \in {"borrowed", "taken", "current", "inserted", "attaching"} => writing
    /\ (pc = "attaching" /\ lastCall.nested
          /\ lastCall.op \in {"is_current", "get_proc_address", "gl_context"}) =>
            (lastCall.ret = "already_borrowed" /\ glutin_context.some /\ glutin_context.cur)
    /\ JustReturned => (~writing /\ readers = 0)

C17_Witness ==
    /\ pc = "attaching"
    /\ glutin_context.some
    /\ lastCall = Call("gl_context", "already_borrowed", TRUE)

\* C18: the wrapper's handle and the adaptor's point to one cell, so while no
\* exclusive borrow is out the wrapper sees the context the adaptor holds,
\* with the same currency, and right after a make_current that returned it
\* sees the context that call inserted.
C18_OneSharedCell ==
    (phase = "built" /\ ~writing) =>
        /\ handles.wrapper = handles.adaptor
        /\ rc = 2
        /\ wrapperCell = glutin_context
        /\ JustReturned => (wrapperCell.some /\ ctx_is_current(wrapperCell))

C18_Witness ==
    /\ phase = "built"
    /\ ~writing
    /\ afterReturn
    /\ lastCall = Call("gl_context", "Ref", FALSE)
    /\ ctx_is_current(wrapperCell)
    /\ readers = 1

TypeOK ==
    /\ phase \in {"unbuilt", "built", "incompatible"}
    /\ supplied \in Contexts
    /\ glutin_context \in Contexts
    /\ gl_window \in Contexts
    /\ writing \in BOOLEAN
    /\ readers \in 0..MaxReaders
    /\ pc \in {"idle", "borrowed", "taken", "current", "inserted", "attaching"}
    /\ cycles \in 0..MaxCycles
    /\ Len(frames) <= MaxFrames
====
